---- MODULE Spec2Model ----
(***************************************************************************)
(* AlwaysMute (src/main.cpp): the control thread of TryMain / MainWndProc, *)
(* the two COM callback objects (EndpointHandler, NotificationClient) that *)
(* run on platform threads, the window's posted-message queue, and the     *)
(* part of the audio platform the program talks to.                        *)
(***************************************************************************)
EXTENDS Integers, Sequences, FiniteSets, TLC

\* ------------------------------------------------------------------ bounds
NumEndpoints == 2
MaxDefaultChanges == 1
MaxDefaultChangesLive == 2
MaxVolumeChanges == 1
MaxPostFailures == 1
MaxExitRequests == 1

Endpoints == 1..NumEndpoints
NoEndpoint == 0
\* One volume-control handle (and one EndpointHandler) per acquire that gets
\* as far as Activate: the startup acquire plus one per default-device change.
Ids == 1..(MaxDefaultChangesLive + 1)
NoHandle == 0

\* GUID values: GUID {} (main.cpp:747), the value CoCreateGuid stores
\* (main.cpp:748), and the event context of some other client.
NullGuid == "GUID_NULL"
SessionGuid == "session"
OtherGuid == "other"
ExternalTags == {NullGuid, OtherGuid}

VARIABLES
  pc,              \* position of the control thread (TryMain / MainWndProc)
  exit,            \* how the process ended: "running", "returned0", "returned1",
                   \* "terminate" (std::terminate), "fault" (access violation)
  thrown,          \* an exception is propagating out of TryMain
  logged,          \* wWinMain's catch block wrote the diagnostic
  guid,            \* TryMain's local guid, read through State::guid / EndpointHandler::guid
  windowAlive,     \* the message-only window exists
  queue,           \* posted messages of the window, oldest first
  quitPosted,      \* PostQuitMessage was called
  audioDevice,     \* State::audioDevice: endpoint, or NoEndpoint for null
  endpointVolume,  \* State::endpointVolume: handle id, or NoHandle for null
  enumeratorHeld,  \* TryMain's deviceEnumerator ComPtr is non-null
  defaultEndpoint, \* platform: current default render/console endpoint
  volume,          \* platform: volume of each endpoint, 0 (silent) or 1
  hEp,             \* platform: endpoint of each activated handle
  nextId,          \* platform: next handle id
  regs,            \* platform: EndpointHandlers registered for volume changes
  refCount,        \* EndpointHandler::refCount per relay object
  relay,           \* per relay object: "none", "alive", "deleted"
  notifs,          \* platform: volume notifications not yet delivered to OnNotify
  devRegistered,   \* platform: the NotificationClient is registered
  devNotifs,       \* platform: pending OnDefaultDeviceChanged(eRender, eConsole) calls
  lastHr,          \* HRESULT the last relay callback returned
  postCalls,       \* number of PostMessageW calls the last relay callback made
  acq,             \* the last GetDefaultEndpoint handler: the handle it replaced, the
                   \* endpoint it found, how far it got, the commands issued before it
  lastCmd,         \* last SetMasterVolumeLevelScalar call: handle, level, context
  mutes,           \* number of SetMasterVolumeLevelScalar calls issued
  acquiresFound,   \* number of acquires whose endpoint query returned an endpoint
  extNotifs,       \* number of OnNotify calls whose context differed from *guid
  failedAt,        \* the step at which a platform call returned a failure to the
                   \* control thread, "none" so far
  defBudget, volBudget, postFailBudget, exitBudget

vars == << pc, exit, thrown, logged, guid, windowAlive, queue, quitPosted,
           audioDevice, endpointVolume, enumeratorHeld, defaultEndpoint, volume,
           hEp, nextId, regs, refCount, relay, notifs, devRegistered, devNotifs,
           lastHr, postCalls, acq, lastCmd, mutes, acquiresFound, extNotifs,
           failedAt, defBudget, volBudget, postFailBudget, exitBudget >>

progVars == << pc, exit, thrown, logged, guid, windowAlive, quitPosted,
               audioDevice, endpointVolume, enumeratorHeld, acq, failedAt >>
platVars == << defaultEndpoint, volume, hEp, nextId, regs, refCount, relay,
               notifs, devRegistered, devNotifs >>
ghostVars == << lastCmd, mutes, acquiresFound, extNotifs >>
relayVars == << lastHr, postCalls >>
budgetVars == << defBudget, volBudget, postFailBudget, exitBudget >>

NoCmd == [h |-> NoHandle, ep |-> NoEndpoint, level |-> 1, ctx |-> NullGuid]
NoAcq == [prev |-> NoHandle, found |-> NoEndpoint, result |-> "none", mutes0 |-> 0]

Running == exit = "running"
Failed == failedAt # "none"

InitWith(defaults, volumes, postFailures, exits) ==
  /\ pc = "start"
  /\ exit = "running"
  /\ thrown = FALSE
  /\ logged = FALSE
  /\ guid = NullGuid
  /\ windowAlive = FALSE
  /\ queue = << >>
  /\ quitPosted = FALSE
  /\ audioDevice = NoEndpoint
  /\ endpointVolume = NoHandle
  /\ enumeratorHeld = FALSE
  /\ defaultEndpoint \in Endpoints \cup {NoEndpoint}
  /\ volume = [e \in Endpoints |-> 1]
  /\ hEp = [i \in Ids |-> NoEndpoint]
  /\ nextId = 1
  /\ regs = {}
  /\ refCount = [i \in Ids |-> 0]
  /\ relay = [i \in Ids |-> "none"]
  /\ notifs = << >>
  /\ devRegistered = FALSE
  /\ devNotifs = 0
  /\ lastHr = "none"
  /\ postCalls = 0
  /\ acq = NoAcq
  /\ lastCmd = NoCmd
  /\ mutes = 0
  /\ acquiresFound = 0
  /\ extNotifs = 0
  /\ failedAt = "none"
  /\ defBudget = defaults
  /\ volBudget = volumes
  /\ postFailBudget = postFailures
  /\ exitBudget = exits

Init == InitWith(MaxDefaultChanges, MaxVolumeChanges, MaxPostFailures, MaxExitRequests)


\* ------------------------------------------------- reference counting
\* ULONG refCount with InterlockedIncrement / InterlockedDecrement, 32 bits
\* wide. The count is kept as the LONG the code casts it to, so 0xFFFFFFFF,
\* the result of decrementing 0, is -1.
LongMax == 2147483647
LongMin == (-LongMax) - 1

RelayAddRef(rc) == IF rc = LongMax THEN LongMin ELSE rc + 1
\* static_cast<LONG>(result) < 0
AddRefThrows(rc) == RelayAddRef(rc) < 0

RelayRelease(rc) == IF rc = LongMin THEN LongMax ELSE rc - 1
\* static_cast<LONG>(result) < 0
ReleaseThrows(rc) == RelayRelease(rc) < 0
ReleaseDeletes(rc) == RelayRelease(rc) = 0

\* refCount {} : a freshly constructed callback object counts no reference.
InitialRefCount == 0

\* ~ComCallback(): Release() only while an exception is propagating. Release
\* throwing inside the destructor during unwinding ends in std::terminate.
ComCallbackDtor(rc, uncaught) ==
  IF ~uncaught THEN "nothing"
  ELSE IF ReleaseThrows(rc) THEN "terminate"
  ELSE IF ReleaseDeletes(rc) THEN "deleted"
  ELSE "released"

\* ------------------------------------------------------------- helpers
RemoveAt(s, i) == SubSeq(s, 1, i - 1) \o SubSeq(s, i + 1, Len(s))

IdSeq == [i \in 1..Cardinality(Ids) |-> i]

\* The notifications the platform raises for a volume change on endpoint ep
\* made with event context tag: one per registered callback of that endpoint.
Emit(ep, tag) ==
  LET targets == SelectSeq(IdSeq, LAMBDA r : r \in regs /\ hEp[r] = ep)
  IN  [i \in 1..Len(targets) |-> [relay |-> targets[i], tag |-> tag]]

\* Notifications of one callback object are delivered in emission order.
Deliverable(i) ==
  /\ i \in 1..Len(notifs)
  /\ \A j \in 1..(i - 1) : notifs[j].relay # notifs[i].relay

Msg(m, src) == [msg |-> m, src |-> src]

\* PostMessageW(window, ...) fails once the window is destroyed.
PostSucceeds == windowAlive

\* Faulty variant of the context check: it posts for the echoes instead of
\* the foreign changes.
ShouldPostInverted(tag, g) == tag = g

\* data->guidEventContext != *guid, g being the value read through guid
ShouldPost(tag, g) == tag # g

\* EndpointHandler::guid points at TryMain's local guid. Once TryMain has
\* returned the pointer dangles and a read through it yields any value.
GuidRead ==
  IF pc = "return" THEN {NullGuid, SessionGuid, OtherGuid} ELSE {guid}

\* GetLastError() after a failed PostMessageW: ERROR_INVALID_WINDOW_HANDLE
\* when the window is gone, ERROR_NOT_ENOUGH_QUOTA when the queue is full.
PostError == IF windowAlive THEN 1816 ELSE 1400

\* A relay that returns S_OK whatever PostMessageW did.
HResultDropped(error) == 0

\* __HRESULT_FROM_WIN32(error): error itself when error <= 0, otherwise
\* 0x80070000 | (error & 0xFFFF), kept as the signed 32-bit HRESULT.
HResultFromWin32(error) ==
  IF error <= 0 THEN error ELSE (error % 65536) - 2147024896

\* SUCCEEDED(hr) / FAILED(hr) as the caller of the callback sees it.
HrName(hr) == IF hr < 0 THEN "E_WIN32" ELSE "S_OK"

\* flow != eRender || role != eConsole  ->  return S_OK without posting
Flows == {"eRender", "eCapture"}
Roles == {"eConsole", "eMultimedia", "eCommunications"}
\* Faulty variant of the filter: && in place of ||.
IsRenderOrConsole(flow, role) == ~(flow # "eRender" /\ role # "eConsole")

IsRenderConsole(flow, role) == ~(flow # "eRender" \/ role # "eConsole")

\* ComPtrDeleter on the volume-control handle h: the program's reference is
\* released. The program never calls UnregisterControlChangeNotify, so what
\* becomes of h's registration is the platform's choice: keep = TRUE leaves
\* the registration (and the callback object) in place, keep = FALSE ends it,
\* the platform releasing its reference on the callback object.
ReleaseVolumeHandle(h, keep) ==
  IF h = NoHandle \/ h \notin regs \/ keep
    THEN UNCHANGED << regs, refCount, relay, notifs >>
    ELSE /\ regs' = regs \ {h}
         /\ refCount' = [refCount EXCEPT ![h] = RelayRelease(refCount[h])]
         /\ relay' = [relay EXCEPT ![h] =
                        IF ReleaseDeletes(refCount[h]) THEN "deleted" ELSE @]
         /\ notifs' = SelectSeq(notifs, LAMBDA n : n.relay # h)

\* throw_ / throwIf / throwIfCOM: the exception leaves MainWndProc and TryMain.
Throw(call) ==
  /\ pc' = "unwindState"
  /\ thrown' = TRUE
  /\ failedAt' = call

\* std::terminate, reached from ~ComCallback when Release throws.
Terminate(call) ==
  /\ pc' = "done"
  /\ exit' = "terminate"
  /\ failedAt' = call


\* ------------------------------------------------ the environment
\* The user or the system changes the default render/console endpoint; a
\* registered IMMNotificationClient is called back for it.
SetDefault(ep) ==
  /\ Running
  /\ defBudget > 0
  /\ ep # defaultEndpoint
  /\ defaultEndpoint' = ep
  /\ devNotifs' = IF devRegistered THEN devNotifs + 1 ELSE devNotifs
  /\ defBudget' = defBudget - 1
  /\ UNCHANGED << progVars, queue, volume, hEp, nextId, regs, refCount, relay,
                  notifs, devRegistered, relayVars, ghostVars, volBudget,
                  postFailBudget, exitBudget >>

\* Another client (or the user) sets the volume of an endpoint.
ExternalVolume(ep, level, tag) ==
  /\ Running
  /\ volBudget > 0
  /\ volume' = [volume EXCEPT ![ep] = level]
  /\ notifs' = notifs \o Emit(ep, tag)
  /\ volBudget' = volBudget - 1
  /\ UNCHANGED << progVars, queue, defaultEndpoint, hEp, nextId, regs, refCount,
                  relay, devRegistered, devNotifs, relayVars, ghostVars, defBudget,
                  postFailBudget, exitBudget >>

\* Tray menu "Exit" (WM_COMMAND / TrayExit) or WM_CLOSE arrives in the queue.
UserExit ==
  /\ exitBudget > 0
  /\ Running /\ windowAlive
  /\ queue' = Append(queue, Msg("Close", NoHandle))
  /\ exitBudget' = exitBudget - 1
  /\ UNCHANGED << progVars, platVars, relayVars, ghostVars, defBudget, volBudget,
                  postFailBudget >>

\* --------------------------------------- relay callbacks (platform threads)
\* EndpointHandler::OnNotify for the i-th pending notification.
OnNotify(i) ==
  /\ Running
  /\ Deliverable(i)
  /\ relay[notifs[i].relay] = "alive"
  /\ \E g \in GuidRead :
       LET n == notifs[i] IN
         /\ notifs' = RemoveAt(notifs, i)
         /\ extNotifs' = IF n.tag # guid THEN extNotifs + 1 ELSE extNotifs
         /\ IF ShouldPost(n.tag, g)
              THEN /\ postCalls' = 1
                   /\ IF PostSucceeds
                        THEN /\ queue' = Append(queue, Msg("ChangeAudio", n.relay))
                             /\ lastHr' = "S_OK"
                        ELSE /\ queue' = queue
                             /\ lastHr' = HrName(HResultFromWin32(PostError))
              ELSE /\ postCalls' = 0
                   /\ queue' = queue
                   /\ lastHr' = "S_OK"
  /\ UNCHANGED << progVars, defaultEndpoint, volume, hEp, nextId, regs, refCount,
                  relay, devRegistered, devNotifs, lastCmd, mutes, acquiresFound,
                  budgetVars >>

\* OnNotify when PostMessageW fails although the window exists.
OnNotifyPostFails(i) ==
  /\ Running
  /\ postFailBudget > 0
  /\ windowAlive
  /\ Deliverable(i)
  /\ relay[notifs[i].relay] = "alive"
  /\ \E g \in GuidRead : ShouldPost(notifs[i].tag, g)
  /\ notifs' = RemoveAt(notifs, i)
  /\ extNotifs' = IF notifs[i].tag # guid THEN extNotifs + 1 ELSE extNotifs
  /\ postCalls' = 1
  /\ lastHr' = HrName(HResultFromWin32(PostError))
  /\ postFailBudget' = postFailBudget - 1
  /\ UNCHANGED << progVars, queue, defaultEndpoint, volume, hEp, nextId, regs,
                  refCount, relay, devRegistered, devNotifs, lastCmd, mutes,
                  acquiresFound, defBudget, volBudget, exitBudget >>

\* Faulty variant: a callback that drops the binding itself instead of leaving
\* it to the control thread.
OnNotifyNullDropsBinding ==
  /\ Running
  /\ \E r \in regs : relay[r] = "alive"
  /\ lastHr' = "E_POINTER"
  /\ postCalls' = 0
  /\ endpointVolume' = NoHandle
  /\ UNCHANGED << pc, exit, thrown, logged, guid, windowAlive, quitPosted,
                  audioDevice, enumeratorHeld, acq, failedAt, platVars, queue,
                  ghostVars, budgetVars >>

\* OnNotify(nullptr)
OnNotifyNull ==
  /\ Running
  /\ \E r \in regs : relay[r] = "alive"
  /\ lastHr' = "E_POINTER"
  /\ postCalls' = 0
  /\ UNCHANGED << progVars, platVars, queue, ghostVars, budgetVars >>

\* NotificationClient::OnDefaultDeviceChanged(flow, role, id). The pending
\* callbacks counted in devNotifs are those for (eRender, eConsole); the other
\* flow/role combinations are raised for changes the model does not track.
OnDefaultDeviceChanged(flow, role) ==
  /\ Running
  /\ devRegistered
  /\ IF IsRenderConsole(flow, role)
       THEN /\ devNotifs > 0
            /\ devNotifs' = devNotifs - 1
            /\ postCalls' = 1
            /\ IF PostSucceeds
                 THEN /\ queue' = Append(queue, Msg("GetDefaultEndpoint", NoHandle))
                      /\ lastHr' = "S_OK"
                 ELSE /\ queue' = queue
                      /\ lastHr' = HrName(HResultFromWin32(PostError))
       ELSE /\ devNotifs' = devNotifs
            /\ postCalls' = 0
            /\ queue' = queue
            /\ lastHr' = "S_OK"
  /\ UNCHANGED << progVars, defaultEndpoint, volume, hEp, nextId, regs, refCount,
                  relay, notifs, devRegistered, ghostVars, budgetVars >>

\* The other callbacks of NotificationClient: each is { return S_OK; }.
OtherDeviceCallbacks ==
  {"OnDeviceStateChanged", "OnDeviceAdded", "OnDeviceRemoved",
   "OnPropertyValueChanged"}

OnDeviceEvent(cb) ==
  /\ Running
  /\ devRegistered
  /\ cb \in OtherDeviceCallbacks
  /\ lastHr' = "S_OK"
  /\ postCalls' = 0
  /\ UNCHANGED << progVars, platVars, queue, ghostVars, budgetVars >>

\* OnDefaultDeviceChanged when PostMessageW fails although the window exists.
OnDefaultDeviceChangedPostFails ==
  /\ Running
  /\ devRegistered
  /\ postFailBudget > 0
  /\ windowAlive
  /\ devNotifs > 0
  /\ devNotifs' = devNotifs - 1
  /\ postCalls' = 1
  /\ lastHr' = HrName(HResultFromWin32(PostError))
  /\ postFailBudget' = postFailBudget - 1
  /\ UNCHANGED << progVars, queue, defaultEndpoint, volume, hEp, nextId, regs,
                  refCount, relay, notifs, devRegistered, ghostVars, defBudget,
                  volBudget, exitBudget >>


\* ----------------------------------------------- the control thread
\* TryMain up to CreateWindowW: CoCreateGuid, the device enumerator, State.
TryMainInit ==
  /\ pc = "start"
  /\ guid' = SessionGuid
  /\ enumeratorHeld' = TRUE
  /\ windowAlive' = TRUE
  /\ pc' = "register"
  /\ UNCHANGED << exit, thrown, logged, queue, quitPosted, audioDevice,
                  endpointVolume, acq, failedAt, platVars, relayVars, ghostVars,
                  budgetVars >>

\* Faulty variant: TryMain goes on to the initial post without having
\* registered the NotificationClient.
RegisterNotificationClientSkipped ==
  /\ pc = "register"
  /\ pc' = "post"
  /\ UNCHANGED << exit, thrown, logged, guid, windowAlive, queue, quitPosted,
                  audioDevice, endpointVolume, enumeratorHeld, acq, failedAt,
                  platVars, relayVars, ghostVars, budgetVars >>

\* RegisterEndpointNotificationCallback(ComCallback<NotificationClient>(window))
RegisterNotificationClient ==
  /\ pc = "register"
  /\ devRegistered' = TRUE
  /\ pc' = "post"
  /\ UNCHANGED << exit, thrown, logged, guid, windowAlive, queue, quitPosted,
                  audioDevice, endpointVolume, enumeratorHeld, acq, failedAt,
                  defaultEndpoint, volume, hEp, nextId, regs, refCount, relay,
                  notifs, devNotifs, relayVars, ghostVars, budgetVars >>

\* Tray icon, then PostMessageW(window, GetDefaultEndpoint) and the loop.
PostInitial ==
  /\ pc = "post"
  /\ queue' = Append(queue, Msg("GetDefaultEndpoint", NoHandle))
  /\ pc' = "idle"
  /\ UNCHANGED << exit, thrown, logged, guid, windowAlive, quitPosted,
                  audioDevice, endpointVolume, enumeratorHeld, acq, failedAt,
                  platVars, relayVars, ghostVars, budgetVars >>

\* GetMessageW returned the oldest posted message m.
Dispatching(m) ==
  /\ pc = "idle"
  /\ Running
  /\ queue # << >>
  /\ Head(queue).msg = m

\* case GetDefaultEndpoint, first part: both ComPtrs are reset.
GetDefaultEndpointReset ==
  /\ Dispatching("GetDefaultEndpoint")
  /\ queue' = Tail(queue)
  /\ \E keep \in BOOLEAN : ReleaseVolumeHandle(endpointVolume, keep)
  /\ acq' = [prev |-> endpointVolume, found |-> NoEndpoint,
             result |-> "running", mutes0 |-> mutes]
  /\ endpointVolume' = NoHandle
  /\ audioDevice' = NoEndpoint
  /\ pc' = "query"
  /\ UNCHANGED << exit, thrown, logged, guid, windowAlive, quitPosted,
                  enumeratorHeld, failedAt, defaultEndpoint, volume, hEp, nextId,
                  devRegistered, devNotifs, relayVars, ghostVars, budgetVars >>

\* GetDefaultAudioEndpoint(eRender, eConsole, out_ptr(audioDevice))
QueryDefaultEndpoint ==
  /\ pc = "query"
  /\ audioDevice' = defaultEndpoint
  /\ IF defaultEndpoint = NoEndpoint
       THEN \* E_NOTFOUND: break
            /\ pc' = "idle"
            /\ acq' = [acq EXCEPT !.result = "notfound"]
            /\ acquiresFound' = acquiresFound
       ELSE /\ pc' = "activate"
            /\ acq' = [acq EXCEPT !.found = defaultEndpoint]
            /\ acquiresFound' = acquiresFound + 1
  /\ UNCHANGED << exit, thrown, logged, guid, windowAlive, queue, quitPosted,
                  endpointVolume, enumeratorHeld, failedAt, platVars, relayVars,
                  lastCmd, mutes, extNotifs, budgetVars >>

\* audioDevice->Activate(IAudioEndpointVolume, out_ptr(endpointVolume))
ActivateVolumeControl ==
  /\ pc = "activate"
  /\ endpointVolume' = nextId
  /\ hEp' = [hEp EXCEPT ![nextId] = audioDevice]
  /\ nextId' = nextId + 1
  /\ pc' = "registerVolume"
  /\ UNCHANGED << exit, thrown, logged, guid, windowAlive, queue, quitPosted,
                  audioDevice, enumeratorHeld, acq, failedAt, defaultEndpoint,
                  volume, regs, refCount, relay, notifs, devRegistered,
                  devNotifs, relayVars, ghostVars, budgetVars >>

\* Faulty variant: the acquire goes on to the mute without having registered
\* a handler on the new handle.
RegisterControlChangeNotifySkipped ==
  /\ pc = "registerVolume"
  /\ pc' = "mute"
  /\ UNCHANGED << exit, thrown, logged, guid, windowAlive, queue, quitPosted,
                  audioDevice, endpointVolume, enumeratorHeld, acq, failedAt,
                  platVars, relayVars, ghostVars, budgetVars >>

\* endpointVolume->RegisterControlChangeNotify(ComCallback<EndpointHandler>(..)):
\* a new callback object; the platform takes its reference on it.
RegisterControlChangeNotify ==
  /\ pc = "registerVolume"
  /\ relay' = [relay EXCEPT ![endpointVolume] = "alive"]
  /\ refCount' = [refCount EXCEPT ![endpointVolume] = RelayAddRef(InitialRefCount)]
  /\ regs' = regs \cup {endpointVolume}
  /\ pc' = "mute"
  /\ UNCHANGED << exit, thrown, logged, guid, windowAlive, queue, quitPosted,
                  audioDevice, endpointVolume, enumeratorHeld, acq, failedAt,
                  defaultEndpoint, volume, hEp, nextId, notifs, devRegistered,
                  devNotifs, relayVars, ghostVars, budgetVars >>

\* ChangeAudio(state): endpointVolume->SetMasterVolumeLevelScalar(0.0f, guid)
\* on a non-null handle. The platform sets the endpoint's volume and notifies
\* every callback registered for that endpoint, passing the context on.
ChangeAudio ==
  /\ endpointVolume # NoHandle
  /\ volume' = [volume EXCEPT ![hEp[endpointVolume]] = 0]
  /\ notifs' = notifs \o Emit(hEp[endpointVolume], guid)
  /\ lastCmd' = [h |-> endpointVolume, ep |-> hEp[endpointVolume],
                 level |-> 0, ctx |-> guid]
  /\ mutes' = mutes + 1

\* Faulty variant: the acquire ends without the ChangeAudio(state) call.
MuteAfterAcquireSkipped ==
  /\ pc = "mute"
  /\ pc' = "idle"
  /\ acq' = [acq EXCEPT !.result = "bound"]
  /\ UNCHANGED << exit, thrown, logged, guid, windowAlive, queue, quitPosted,
                  audioDevice, endpointVolume, enumeratorHeld, failedAt,
                  platVars, relayVars, ghostVars, budgetVars >>

\* case GetDefaultEndpoint, last statement: ChangeAudio(state); break
MuteAfterAcquire ==
  /\ pc = "mute"
  /\ ChangeAudio
  /\ pc' = "idle"
  /\ acq' = [acq EXCEPT !.result = "bound"]
  /\ UNCHANGED << exit, thrown, logged, guid, windowAlive, queue, quitPosted,
                  audioDevice, endpointVolume, enumeratorHeld, failedAt,
                  defaultEndpoint, hEp, nextId, regs, refCount, relay,
                  devRegistered, devNotifs, relayVars, acquiresFound, extNotifs,
                  budgetVars >>

\* case ChangeAudio with a handle held.
ChangeAudioMessage ==
  /\ Dispatching("ChangeAudio")
  /\ queue' = Tail(queue)
  /\ ChangeAudio
  /\ UNCHANGED << progVars, defaultEndpoint, hEp, nextId, regs, refCount, relay,
                  devRegistered, devNotifs, relayVars, acquiresFound, extNotifs,
                  budgetVars >>

\* case ChangeAudio with endpointVolume == nullptr: a member call through a
\* null pointer. Undefined behaviour: the process faults, or the call is
\* skipped and the loop goes on.
NullOutcomes == {"fault", "skipped"}

ChangeAudioMessageNull ==
  /\ Dispatching("ChangeAudio")
  /\ endpointVolume = NoHandle
  /\ queue' = Tail(queue)
  /\ \E outcome \in NullOutcomes :
       IF outcome = "fault"
         THEN pc' = "done" /\ exit' = "fault"
         ELSE pc' = pc /\ exit' = exit
  /\ UNCHANGED << thrown, logged, guid, windowAlive, quitPosted, audioDevice,
                  endpointVolume, enumeratorHeld, acq, failedAt, platVars, relayVars,
                  ghostVars, budgetVars >>

\* WM_CLOSE / TrayExit: DestroyWindow, which sends WM_DESTROY (PostQuitMessage)
\* and discards the messages still posted to the window.
CloseMessage ==
  /\ Dispatching("Close")
  /\ windowAlive' = FALSE
  /\ queue' = << >>
  /\ quitPosted' = TRUE
  /\ UNCHANGED << pc, exit, thrown, logged, guid, audioDevice, endpointVolume,
                  enumeratorHeld, acq, failedAt, platVars, relayVars, ghostVars,
                  budgetVars >>

\* GetMessageW returns 0 (WM_QUIT): the loop ends, TryMain returns msg.wParam.
LoopExit ==
  /\ pc = "idle"
  /\ Running
  /\ queue = << >>
  /\ quitPosted
  /\ pc' = "unwindState"
  /\ UNCHANGED << exit, thrown, logged, guid, windowAlive, queue, quitPosted,
                  audioDevice, endpointVolume, enumeratorHeld, acq, failedAt,
                  platVars, relayVars, ghostVars, budgetVars >>

\* ~State: endpointVolume, then audioDevice (reverse order of declaration).
UnwindState ==
  /\ pc = "unwindState"
  /\ \E keep \in BOOLEAN : ReleaseVolumeHandle(endpointVolume, keep)
  /\ endpointVolume' = NoHandle
  /\ audioDevice' = NoEndpoint
  /\ pc' = "unwindEnumerator"
  /\ UNCHANGED << exit, thrown, logged, guid, windowAlive, queue, quitPosted,
                  enumeratorHeld, acq, failedAt, defaultEndpoint, volume, hEp,
                  nextId, devRegistered, devNotifs, relayVars, ghostVars,
                  budgetVars >>

\* ~ComPtr<IMMDeviceEnumerator>. RegisterEndpointNotificationCallback is never
\* undone by the program; what becomes of the registration is the platform's.
UnwindEnumerator ==
  /\ pc = "unwindEnumerator"
  /\ enumeratorHeld' = FALSE
  /\ \E keep \in BOOLEAN :
       /\ devRegistered' = (devRegistered /\ keep)
       /\ devNotifs' = IF devRegistered /\ keep THEN devNotifs ELSE 0
  /\ pc' = "return"
  /\ UNCHANGED << exit, thrown, logged, guid, windowAlive, queue, quitPosted,
                  audioDevice, endpointVolume, acq, failedAt, defaultEndpoint,
                  volume, hEp, nextId, regs, refCount, relay, notifs, relayVars,
                  ghostVars, budgetVars >>

\* wWinMain: return TryMain(..), or the catch blocks: log, return 1.
WinMainReturn ==
  /\ pc = "return"
  /\ pc' = "done"
  /\ exit' = IF thrown THEN "returned1" ELSE "returned0"
  /\ logged' = thrown
  /\ UNCHANGED << thrown, guid, windowAlive, queue, quitPosted, audioDevice,
                  endpointVolume, enumeratorHeld, acq, failedAt, platVars, relayVars,
                  ghostVars, budgetVars >>


\* ------------------------------------------- platform calls that fail
\* A throwIf / throwIfCOM in TryMain or in the GetDefaultEndpoint handler fires:
\* start-up calls, PostMessageW, GetDefaultAudioEndpoint (other than
\* E_NOTFOUND), Activate.
ThrowingSteps == {"start", "post", "query", "activate"}

\* The platform call made at each step of the control thread.
CallAt(step) ==
  CASE step = "start" -> "startup"
    [] step = "register" -> "RegisterEndpointNotificationCallback"
    [] step = "post" -> "PostMessageW"
    [] step = "query" -> "GetDefaultAudioEndpoint"
    [] step = "activate" -> "Activate"
    [] step = "registerVolume" -> "RegisterControlChangeNotify"
    [] step = "mute" -> "SetMasterVolumeLevelScalar"
    [] OTHER -> "none"

PlatformCallThrows ==
  /\ pc \in ThrowingSteps
  /\ Throw(CallAt(pc))
  /\ UNCHANGED << exit, logged, guid, windowAlive, queue, quitPosted,
                  audioDevice, endpointVolume, enumeratorHeld, acq, platVars,
                  relayVars, ghostVars, budgetVars >>

\* A registration call returns a failure: throwIfCOM throws while the
\* ComCallback temporary is alive, so its destructor calls Release on the
\* callback object, which the platform has not taken a reference on. The
\* count of the EndpointHandler just constructed is decremented from its
\* initial value; the object is deleted only if that gives 0.
RegistrationFails ==
  /\ pc \in {"register", "registerVolume"}
  /\ IF ComCallbackDtor(InitialRefCount, TRUE) = "terminate"
       THEN Terminate(CallAt(pc)) /\ thrown' = thrown
       ELSE Throw(CallAt(pc)) /\ exit' = exit
  /\ IF pc = "registerVolume"
       THEN /\ refCount' = [refCount EXCEPT
                              ![endpointVolume] = RelayRelease(InitialRefCount)]
            /\ relay' = [relay EXCEPT ![endpointVolume] =
                           IF ReleaseDeletes(InitialRefCount)
                             THEN "deleted" ELSE "alive"]
       ELSE UNCHANGED << refCount, relay >>
  /\ UNCHANGED << logged, guid, windowAlive, queue, quitPosted, audioDevice,
                  endpointVolume, enumeratorHeld, acq, defaultEndpoint, volume,
                  hEp, nextId, regs, notifs, devRegistered, devNotifs, relayVars,
                  ghostVars, budgetVars >>

\* ChangeAudio(state) when SetMasterVolumeLevelScalar returns a failure: the
\* command was issued, the volume is not changed, throwIfCOM throws.
ChangeAudioFails ==
  /\ endpointVolume # NoHandle
  /\ lastCmd' = [h |-> endpointVolume, ep |-> hEp[endpointVolume],
                 level |-> 0, ctx |-> guid]
  /\ mutes' = mutes + 1
  /\ Throw("SetMasterVolumeLevelScalar")

\* case GetDefaultEndpoint, last statement, failing.
MuteAfterAcquireFails ==
  /\ pc = "mute"
  /\ ChangeAudioFails
  /\ UNCHANGED << exit, logged, guid, windowAlive, queue, quitPosted,
                  audioDevice, endpointVolume, enumeratorHeld, acq, platVars,
                  relayVars, acquiresFound, extNotifs, budgetVars >>

\* case ChangeAudio, failing.
ChangeAudioMessageFails ==
  /\ Dispatching("ChangeAudio")
  /\ queue' = Tail(queue)
  /\ ChangeAudioFails
  /\ UNCHANGED << exit, logged, guid, windowAlive, quitPosted, audioDevice,
                  endpointVolume, enumeratorHeld, acq, platVars, relayVars,
                  acquiresFound, extNotifs, budgetVars >>

\* WM_CLOSE / TrayExit: DestroyWindow returns 0.
CloseMessageFails ==
  /\ Dispatching("Close")
  /\ queue' = Tail(queue)
  /\ Throw("DestroyWindow")
  /\ UNCHANGED << exit, logged, guid, windowAlive, quitPosted, audioDevice,
                  endpointVolume, enumeratorHeld, acq, platVars, relayVars,
                  ghostVars, budgetVars >>

\* GetMessageW returns -1.
GetMessageFails ==
  /\ pc = "idle"
  /\ Running
  /\ Throw("GetMessageW")
  /\ UNCHANGED << exit, logged, guid, windowAlive, queue, quitPosted,
                  audioDevice, endpointVolume, enumeratorHeld, acq, platVars,
                  relayVars, ghostVars, budgetVars >>

\* ------------------------------------------------------ specifications
Environment ==
  \/ \E ep \in Endpoints \cup {NoEndpoint} : SetDefault(ep)
  \/ \E ep \in Endpoints, level \in {0, 1}, tag \in ExternalTags :
       ExternalVolume(ep, level, tag)

Relays ==
  \/ \E i \in 1..Len(notifs) : OnNotify(i)
  \/ \E flow \in Flows, role \in Roles : OnDefaultDeviceChanged(flow, role)
  \/ \E cb \in OtherDeviceCallbacks : OnDeviceEvent(cb)

Control ==
  \/ TryMainInit
  \/ RegisterNotificationClient
  \/ PostInitial
  \/ GetDefaultEndpointReset
  \/ QueryDefaultEndpoint
  \/ ActivateVolumeControl
  \/ RegisterControlChangeNotify
  \/ MuteAfterAcquire
  \/ ChangeAudioMessage
  \/ ChangeAudioMessageNull

Shutdown ==
  \/ UserExit
  \/ CloseMessage
  \/ LoopExit
  \/ UnwindState
  \/ UnwindEnumerator
  \/ WinMainReturn

Failures ==
  \/ PlatformCallThrows
  \/ RegistrationFails
  \/ MuteAfterAcquireFails
  \/ ChangeAudioMessageFails
  \/ CloseMessageFails
  \/ GetMessageFails
  \/ \E i \in 1..Len(notifs) : OnNotifyPostFails(i)
  \/ OnDefaultDeviceChangedPostFails
  \/ OnNotifyNull

Next == Environment \/ Relays \/ Control \/ Shutdown \/ Failures

Spec == Init /\ [][Next]_vars

\* Runs in which no platform call fails and nobody asks the program to exit.
\* GetMessageW / DispatchMessageW keep the control thread going while a
\* message is posted, and the platform delivers every callback it owes.
LiveInit == InitWith(MaxDefaultChangesLive, MaxVolumeChanges, 0, 0)

LiveNext == Environment \/ Relays \/ Control

LiveSpec ==
  /\ LiveInit
  /\ [][LiveNext]_vars
  /\ WF_vars(Control)
  /\ WF_vars(\E i \in 1..Len(notifs) : OnNotify(i))
  /\ WF_vars(OnDefaultDeviceChanged("eRender", "eConsole"))

\* Runs in which the only failing call is a relay's PostMessageW, and the user
\* may ask the program to exit. The control thread keeps running while it has
\* something to do: the message loop, and after it the return through TryMain
\* and wWinMain.
ControlThread ==
  \/ Control
  \/ CloseMessage
  \/ LoopExit
  \/ UnwindState
  \/ UnwindEnumerator
  \/ WinMainReturn

PostFailures ==
  \/ \E i \in 1..Len(notifs) : OnNotifyPostFails(i)
  \/ OnDefaultDeviceChangedPostFails

FairNext == Environment \/ Relays \/ Control \/ Shutdown \/ PostFailures

FairSpec ==
  /\ Init
  /\ [][FairNext]_vars
  /\ WF_vars(ControlThread)
  /\ WF_vars(\E i \in 1..Len(notifs) : OnNotify(i))
  /\ WF_vars(OnDefaultDeviceChanged("eRender", "eConsole"))


\* ============================================================== claims
Bound == endpointVolume # NoHandle
Unbound == endpointVolume = NoHandle /\ audioDevice = NoEndpoint

\* The control loop waits in GetMessageW with nothing posted and the platform
\* owes no callback.
Quiescent ==
  /\ Running
  /\ pc = "idle"
  /\ queue = << >>
  /\ notifs = << >>
  /\ devNotifs = 0

\* The current default render endpoint, if there is one, is the bound
\* endpoint and is silent.
DefaultMuted ==
  \/ defaultEndpoint = NoEndpoint
  \/ /\ Running
     /\ Bound
     /\ audioDevice = defaultEndpoint
     /\ hEp[endpointVolume] = defaultEndpoint
     /\ volume[defaultEndpoint] = 0

QuiescentMuted == (Quiescent /\ Bound) => volume[hEp[endpointVolume]] = 0

\* C1: with the message queue processed fairly and no platform call failing,
\* the system reaches again and again (and, once the default-device and
\* volume changes have ended, for good) a state in which the default render
\* endpoint, if one exists, is the bound endpoint with volume 0; and in every
\* quiescent state a bound endpoint has volume 0.
C1_EventuallyMuted == ([]<>DefaultMuted) /\ [](QuiescentMuted)

\* C2: at most one EndpointBinding is live: at most one volume-change
\* subscription is in effect, it belongs to the handle the program holds, and
\* while a new binding is being created (from the endpoint query on) the
\* previous binding's subscription is no longer in effect.
C2_AtMostOneBinding ==
  /\ Cardinality(regs) <= 1
  /\ Bound => regs \subseteq {endpointVolume}
  /\ pc \in {"query", "activate", "registerVolume", "mute"} => acq.prev \notin regs

\* C3: an OnNotify call whose event context equals the session GUID posts no
\* message and issues no volume command, in any state of the process.
C3_SelfTagNeverMutes ==
  [][\A i \in 1..Len(notifs) :
       (OnNotify(i) /\ notifs[i].tag = guid)
         => (queue' = queue /\ mutes' = mutes /\ lastCmd' = lastCmd)]_vars

\* C4: the ChangeAudio event that a notification with a foreign context
\* posted makes the control loop issue exactly one mute command (level 0,
\* context = session GUID) while it dispatches that event.
C4_ForeignTagMutesOnce ==
  [][(Dispatching("ChangeAudio") /\ queue' = Tail(queue))
       => /\ mutes' = mutes + 1
          /\ lastCmd'.level = 0
          /\ lastCmd'.ctx = SessionGuid]_vars

\* C5: the number of mute commands issued never exceeds the number of
\* acquires that found an endpoint plus the number of notifications that
\* carried a foreign context: an echo never causes a command.
C5_MuteLoopFinite == mutes <= acquiresFound + extNotifs

\* One acquire and one foreign notification have produced two commands, both
\* echoes were delivered, and the system is at rest.
C5_Witness ==
  /\ Quiescent
  /\ mutes = 2
  /\ acquiresFound = 1
  /\ extNotifs = 1

\* C6: after an acquire that found no default endpoint, no endpoint and no
\* handle is held, no volume subscription is in effect, the acquire issued no
\* command, and the loop is still running (until a later failure or exit).
C6_NotFoundLeavesUnbound ==
  acq.result = "notfound"
    => /\ Unbound
       /\ regs = {}
       /\ mutes = acq.mutes0
       /\ (Running /\ ~thrown /\ ~quitPosted) => pc = "idle"

\* C7: when an acquire whose endpoint query returned E2 has completed, the
\* program is bound to E2: the endpoint held is E2, the handle held is a new
\* handle on E2 (not the one held before), its relay is registered, and the
\* last command is a mute to level 0 with the session GUID on that handle.
C7_RebindBindsNewDefault ==
  (Running /\ pc = "idle" /\ acq.result = "bound")
    => /\ acq.found # NoEndpoint
       /\ audioDevice = acq.found
       /\ Bound
       /\ hEp[endpointVolume] = acq.found
       /\ endpointVolume # acq.prev
       /\ endpointVolume \in regs
       /\ mutes > acq.mutes0
       /\ lastCmd = [h |-> endpointVolume, ep |-> acq.found,
                     level |-> 0, ctx |-> SessionGuid]

\* Bound to one endpoint before, bound to another one now.
C7_Witness ==
  /\ Running /\ pc = "idle" /\ acq.result = "bound"
  /\ acq.prev # NoHandle
  /\ hEp[acq.prev] # acq.found
  /\ audioDevice = acq.found

\* C8: when the platform is queried for the new default endpoint, and when
\* the new handle is activated, the old handle is no longer held and the old
\* binding's volume subscription is no longer in effect.
C8_TeardownBeforeQuery ==
  pc \in {"query", "activate"}
    => /\ endpointVolume = NoHandle
       /\ acq.prev \notin regs

\* C9: once the replacement binding exists, no ChangeAudio event posted by the
\* relay of a torn-down binding is in the queue (to be processed) or is added
\* to it.
C9_NoStaleRelayEvents ==
  (Running /\ pc = "idle" /\ acq.result = "bound")
    => \A k \in 1..Len(queue) :
         queue[k].msg = "ChangeAudio" => queue[k].src = endpointVolume

\* A platform call of the core has failed: the endpoint query, the activation,
\* the volume subscription registration, or a mute command.
CoreCallFailed ==
  failedAt \in {"GetDefaultAudioEndpoint", "Activate",
                "RegisterControlChangeNotify", "SetMasterVolumeLevelScalar"}

\* C10: after a platform call has failed the program only unwinds (it issues
\* no further query, activation, registration or volume command) and ends in
\* wWinMain's catch block, which logs and returns 1.
C10_FailureUnwindsToEntry ==
  CoreCallFailed
    => /\ pc \in {"unwindState", "unwindEnumerator", "return", "done"}
       /\ exit \in {"running", "returned1"}
       /\ pc = "done" => (exit = "returned1" /\ logged)

\* A relay callback has run: OnNotify or OnDefaultDeviceChanged was called by
\* the platform and has returned.
RelayStep ==
  \/ \E i \in 1..Len(notifs) : OnNotify(i) \/ OnNotifyPostFails(i)
  \/ OnNotifyNull
  \/ \E flow \in Flows, role \in Roles : OnDefaultDeviceChanged(flow, role)
  \/ \E cb \in OtherDeviceCallbacks : OnDeviceEvent(cb)
  \/ OnDefaultDeviceChangedPostFails

\* C11: a relay callback whose PostMessageW call does not enqueue the event
\* returns a failure HRESULT, has made that one call only, has returned, and
\* has changed nothing of the program's state.
C11_EnqueueFailureReported ==
  [][(RelayStep /\ postCalls' >= 1 /\ queue' = queue)
       => /\ lastHr' = "E_WIN32"
          /\ postCalls' = 1
          /\ UNCHANGED progVars
          /\ UNCHANGED << regs, refCount, relay, devRegistered, hEp, volume >>
          /\ UNCHANGED << lastCmd, mutes >>]_vars

\* A callback has reported a failed enqueue while the loop is waiting for
\* messages.
C11_Witness ==
  /\ Running /\ pc = "idle" /\ windowAlive
  /\ lastHr = "E_WIN32"
  /\ postCalls = 1

\* The process has ended with a non-zero exit status.
ExitedNonZero == exit \in {"returned1", "terminate", "fault"}

\* C12: whenever a relay callback has failed to enqueue its event, the process
\* goes on to terminate with a non-zero exit status.
C12_EnqueueFailureIsFatal == (lastHr = "E_WIN32") ~> ExitedNonZero

\* C13: at a shutdown the user asked for, the device subscription has been
\* released by the time the live binding's handle is released.
C13_SubscriptionReleasedFirst ==
  [][(UnwindState /\ ~thrown /\ Bound) => ~devRegistered]_vars

\* A tray Exit or a window close is waiting in the queue.
ExitRequested ==
  /\ Running
  /\ \E k \in 1..Len(queue) : queue[k].msg = "Close"

\* wWinMain has returned 0 and neither the binding nor the device subscription
\* is left.
ExitedClean ==
  /\ exit = "returned0"
  /\ Unbound
  /\ regs = {}
  /\ ~devRegistered

\* C14: with no platform call failing, an exit request leads to the process
\* ending with status 0, the binding and the device subscription released;
\* and once the window has been destroyed no volume command is issued.
C14_ShutdownTerminates ==
  /\ ExitRequested ~> ExitedClean
  /\ [][quitPosted => mutes' = mutes]_vars

\* The steps of the control thread that assign State::audioDevice or
\* State::endpointVolume.
BindingStep ==
  \/ GetDefaultEndpointReset
  \/ QueryDefaultEndpoint
  \/ ActivateVolumeControl
  \/ UnwindState

\* C15: a relay callback leaves the binding, the device subscription and all
\* other state of the control thread as they are; its only effect is at most
\* one message appended to the queue; and the binding changes only in steps
\* of the control thread.
C15_RelaysOnlyEnqueue ==
  [][/\ RelayStep =>
          /\ UNCHANGED progVars
          /\ UNCHANGED << regs, devRegistered, hEp, refCount, relay, volume,
                          lastCmd, mutes >>
          /\ postCalls' <= 1
          /\ \/ queue' = queue
             \/ /\ postCalls' = 1
                /\ Len(queue') = Len(queue) + 1
                /\ SubSeq(queue', 1, Len(queue)) = queue
     /\ (audioDevice' # audioDevice \/ endpointVolume' # endpointVolume)
          => BindingStep]_vars

\* A callback has posted its message while the control thread is in the
\* middle of an acquire.
C15_Witness ==
  /\ Running
  /\ pc \in {"query", "activate", "registerVolume", "mute"}
  /\ postCalls = 1
  /\ lastHr = "S_OK"
  /\ queue # << >>

\* C16: the reference count of a relay object is never negative; the object
\* is destroyed only with no reference left; it is not destroyed while its
\* subscription holds it; and it is alive only while a subscription holds it
\* (not after the subscription ended, not after its registration failed).
C16_RelayLifetime ==
  \A i \in Ids :
    /\ refCount[i] >= 0
    /\ relay[i] = "deleted" => refCount[i] = 0
    /\ i \in regs => (relay[i] = "alive" /\ refCount[i] > 0)
    /\ relay[i] = "alive" => i \in regs

\* A registered EndpointHandler exists and the platform may call it.
RelayCallable == Running /\ \E r \in regs : relay[r] = "alive"

\* C17: the session GUID is assigned once, by CoCreateGuid at startup, and
\* never changes afterwards; every volume command issued has level 0 and that
\* GUID as its context; and whenever a registered EndpointHandler can be
\* called, the value it compares the notification's context with is that GUID.
C17_SessionTagConstant ==
  /\ [][guid' # guid => (pc = "start" /\ guid' = SessionGuid)]_vars
  /\ [](mutes > 0 => (lastCmd.level = 0 /\ lastCmd.ctx = SessionGuid))
  /\ [](RelayCallable => GuidRead = {SessionGuid})

\* The handle held has had a volume command issued on it.
MutedHeldHandle == Bound /\ lastCmd.h = endpointVolume

\* C18: within an acquire that found an endpoint the handle is activated
\* first, the handler is registered on it next, and the mute is issued last:
\* no command is issued by the acquire before the handler is registered, and
\* a volume change made by another client after the mute raises a
\* notification for the handler of the held handle.
C18_AcquireStepOrder ==
  /\ [](pc = "activate" => (~Bound /\ mutes = acq.mutes0))
  /\ [](pc = "registerVolume" =>
         /\ Bound
         /\ hEp[endpointVolume] = acq.found
         /\ endpointVolume \notin regs
         /\ mutes = acq.mutes0)
  /\ [](pc = "mute" => (endpointVolume \in regs /\ mutes = acq.mutes0))
  /\ [](MutedHeldHandle => endpointVolume \in regs)
  /\ [][\A ep \in Endpoints, level \in {0, 1}, tag \in ExternalTags :
          (ExternalVolume(ep, level, tag) /\ MutedHeldHandle
             /\ ep = hEp[endpointVolume])
            => \E k \in (Len(notifs) + 1)..Len(notifs') :
                 notifs'[k] = [relay |-> endpointVolume, tag |-> tag]]_vars

\* After the mute of the acquire another client has changed the volume of the
\* bound endpoint, and the notification for the handler is pending.
C18_Witness ==
  /\ Running /\ pc = "idle" /\ acq.result = "bound"
  /\ MutedHeldHandle
  /\ volume[hEp[endpointVolume]] = 1
  /\ \E k \in 1..Len(notifs) :
       notifs[k].relay = endpointVolume /\ notifs[k].tag \in ExternalTags

\* C19: whenever the message the control loop is about to dispatch is a
\* ChangeAudio, a volume-control handle is held.
C19_HandleHeldOnChangeAudio == Dispatching("ChangeAudio") => Bound

\* C20: with no call failing and no exit request, the NotificationClient is
\* registered before the initial GetDefaultEndpoint is posted; until the first
\* acquire has begun, the message the loop dispatches next is a
\* GetDefaultEndpoint; and when the program has come to rest the endpoint it
\* holds is the current default endpoint (none, if there is none).
C20_StartupOrder ==
  /\ (pc = "post" \/ queue # << >>) => devRegistered
  /\ (Running /\ pc = "idle" /\ acq.result = "none")
       => (queue # << >> /\ Head(queue).msg = "GetDefaultEndpoint")
  /\ Quiescent => audioDevice = defaultEndpoint

\* The default endpoint changed after the registration and before the initial
\* acquire was dispatched: the initial request and the relayed one are both
\* waiting in the queue.
C20_Witness ==
  /\ Running /\ pc = "idle" /\ acq.result = "none"
  /\ Len(queue) = 2
  /\ queue[1].msg = "GetDefaultEndpoint" /\ queue[2].msg = "GetDefaultEndpoint"
  /\ defBudget < MaxDefaultChangesLive

\* A callback of the NotificationClient that is not a default-device change
\* for (eRender, eConsole) has run.
FilteredDeviceStep ==
  \/ \E flow \in Flows, role \in Roles :
       /\ ~(flow = "eRender" /\ role = "eConsole")
       /\ OnDefaultDeviceChanged(flow, role)
  \/ \E cb \in OtherDeviceCallbacks : OnDeviceEvent(cb)

\* A GetDefaultEndpoint message has been appended to the queue.
ReacquirePosted ==
  /\ Len(queue') = Len(queue) + 1
  /\ queue'[Len(queue')].msg = "GetDefaultEndpoint"

\* C21: a NotificationClient callback other than a default-device change for
\* (eRender, eConsole) posts nothing, returns S_OK and leaves the binding as
\* it is; and the only callback that posts a GetDefaultEndpoint message is
\* the default-device change for (eRender, eConsole).
C21_OnlyRenderConsoleReacquires ==
  [][/\ FilteredDeviceStep =>
          /\ queue' = queue
          /\ postCalls' = 0
          /\ lastHr' = "S_OK"
          /\ UNCHANGED << audioDevice, endpointVolume, regs, devRegistered,
                          devNotifs, lastCmd, mutes >>
     /\ (RelayStep /\ ReacquirePosted)
          => OnDefaultDeviceChanged("eRender", "eConsole")]_vars

\* No volume handler was ever registered, the loop is at rest after an acquire
\* that found no endpoint, and the last callback, one of the NotificationClient,
\* returned S_OK without calling PostMessageW.
C21_Witness ==
  /\ Running /\ pc = "idle" /\ devRegistered
  /\ nextId = 1
  /\ acq.result = "notfound"
  /\ queue = << >>
  /\ lastHr = "S_OK"
  /\ postCalls = 0

====
